---------------------------- MODULE Spec2Model ----------------------------
(***************************************************************************)
(* Model of nlp/models/random_forest.py: the offline job that loads the    *)
(* fake/true news tables, normalizes the text, fits a TF-IDF + random      *)
(* forest pipeline and saves it with a JSON sidecar.                       *)
(*                                                                         *)
(* Text is modelled as real strings.  The library calls the script makes  *)
(* (word_tokenize, stopwords.words, str.lower, str.isalpha,                *)
(* WordNetLemmatizer.lemmatize, TfidfVectorizer, train_test_split) are     *)
(* operators that compute what the call computes on the model's alphabet:  *)
(* ASCII letters, digits, the blank and the marks "!" and "?".             *)
(***************************************************************************)
EXTENDS Integers, Sequences, FiniteSets, TLC

(***************************************************************************)
(* Strings                                                                 *)
(***************************************************************************)
Upper == "ABCDEFGHIJKLMNOPQRSTUVWXYZ"
Lower == "abcdefghijklmnopqrstuvwxyz"
Digits == "0123456789"

Char(s, i) == SubSeq(s, i, i)

IsIn(c, alphabet) == \E i \in 1..Len(alphabet) : Char(alphabet, i) = c

\* str.lower() on one character.
LowerChar(c) ==
    IF IsIn(c, Upper)
    THEN Char(Lower, CHOOSE i \in 1..Len(Upper) : Char(Upper, i) = c)
    ELSE c

RECURSIVE StrLower(_)
\* word.lower() (line 66).
StrLower(s) ==
    IF Len(s) = 0 THEN ""
    ELSE LowerChar(Char(s, 1)) \o StrLower(SubSeq(s, 2, Len(s)))

\* word.isalpha() (line 71): non-empty and every character a letter.
IsAlpha(s) ==
    /\ Len(s) > 0
    /\ \A i \in 1..Len(s) : IsIn(Char(s, i), Upper) \/ IsIn(Char(s, i), Lower)

EndsWith(s, suffix) ==
    /\ Len(s) >= Len(suffix)
    /\ SubSeq(s, Len(s) - Len(suffix) + 1, Len(s)) = suffix

RECURSIVE JoinWith(_, _)
\* sep.join(tokens) (line 81).
JoinWith(sep, tokens) ==
    IF Len(tokens) = 0 THEN ""
    ELSE IF Len(tokens) = 1 THEN tokens[1]
    ELSE tokens[1] \o sep \o JoinWith(sep, Tail(tokens))

(***************************************************************************)
(* word_tokenize (line 61).  NLTK's word tokenizer separates the input at  *)
(* white space, makes "!" and "?" tokens of their own, and splits the      *)
(* contractions of its CONTRACTIONS2 list ("cannot" -> "can", "not").      *)
(***************************************************************************)
Blank == " "
Marks == "!?"

Contractions2 ==
    { <<"can", "not">>, <<"gim", "me">>, <<"gon", "na">>,
      <<"got", "ta">>, <<"lem", "me">>, <<"wan", "na">> }

\* One white-space separated piece without marks: itself, or its two halves
\* when it is a contraction (matched case-insensitively, case kept).
SplitContraction(piece) ==
    IF \E c \in Contractions2 : StrLower(piece) = c[1] \o c[2]
    THEN LET c == CHOOSE d \in Contractions2 : StrLower(piece) = d[1] \o d[2]
         IN  << SubSeq(piece, 1, Len(c[1])),
                SubSeq(piece, Len(c[1]) + 1, Len(piece)) >>
    ELSE << piece >>

Flush(cur) == IF cur = "" THEN << >> ELSE SplitContraction(cur)

RECURSIVE Scan(_, _, _)
\* Scan(text, i, cur): the tokens of text from position i on, cur being the
\* piece read so far.
Scan(text, i, cur) ==
    IF i > Len(text) THEN Flush(cur)
    ELSE LET c == Char(text, i) IN
         IF c = Blank THEN Flush(cur) \o Scan(text, i + 1, "")
         ELSE IF IsIn(c, Marks) THEN Flush(cur) \o << c >> \o Scan(text, i + 1, "")
         ELSE Scan(text, i + 1, cur \o c)

word_tokenize(text) == Scan(text, 1, "")

(***************************************************************************)
(* stopwords.words('english') (line 64): NLTK's English stop word list.    *)
(***************************************************************************)
stop_words ==
    { "i", "me", "my", "myself", "we", "our", "ours", "ourselves", "you",
      "you're", "you've", "you'll", "you'd", "your", "yours", "yourself",
      "yourselves", "he", "him", "his", "himself", "she", "she's", "her",
      "hers", "herself", "it", "it's", "its", "itself", "they", "them",
      "their", "theirs", "themselves", "what", "which", "who", "whom",
      "this", "that", "that'll", "these", "those", "am", "is", "are", "was",
      "were", "be", "been", "being", "have", "has", "had", "having", "do",
      "does", "did", "doing", "a", "an", "the", "and", "but", "if", "or",
      "because", "as", "until", "while", "of", "at", "by", "for", "with",
      "about", "against", "between", "into", "through", "during", "before",
      "after", "above", "below", "to", "from", "up", "down", "in", "out",
      "on", "off", "over", "under", "again", "further", "then", "once",
      "here", "there", "when", "where", "why", "how", "all", "any", "both",
      "each", "few", "more", "most", "other", "some", "such", "no", "nor",
      "not", "only", "own", "same", "so", "than", "too", "very", "s", "t",
      "can", "will", "just", "don", "don't", "should", "should've", "now",
      "d", "ll", "m", "o", "re", "ve", "y", "ain", "aren", "aren't",
      "couldn", "couldn't", "didn", "didn't", "doesn", "doesn't", "hadn",
      "hadn't", "hasn", "hasn't", "haven", "haven't", "isn", "isn't", "ma",
      "mightn", "mightn't", "mustn", "mustn't", "needn", "needn't", "shan",
      "shan't", "shouldn", "shouldn't", "wasn", "wasn't", "weren",
      "weren't", "won", "won't", "wouldn", "wouldn't" }

(***************************************************************************)
(* WordNetLemmatizer().lemmatize(word) (lines 75-78), part of speech noun: *)
(* WordNet's morphy, then the shortest lemma found, or the word itself.    *)
(***************************************************************************)
\* The entries of WordNet's noun index that the model's texts can reach.
NounIndex == { "can", "dog", "bark", "article", "test", "man", "b" }

\* WordNet's noun exception list (noun.exc), the entries within reach.
NounExceptions == { <<"men", "man">> }

\* MORPHOLOGICAL_SUBSTITUTIONS[NOUN], in the library's order.
NounSubstitutions ==
    << <<"s", "">>, <<"ses", "s">>, <<"ves", "f">>, <<"xes", "x">>,
       <<"zes", "z">>, <<"ches", "ch">>, <<"shes", "sh">>,
       <<"men", "man">>, <<"ies", "y">> >>

RECURSIVE RulesOf(_, _)
\* The forms one word gives under the substitutions from rule k on.
RulesOf(form, k) ==
    IF k > Len(NounSubstitutions) THEN << >>
    ELSE LET old == NounSubstitutions[k][1]
             new == NounSubstitutions[k][2]
         IN  (IF EndsWith(form, old)
              THEN << SubSeq(form, 1, Len(form) - Len(old)) \o new >>
              ELSE << >>) \o RulesOf(form, k + 1)

RECURSIVE apply_rules(_)
apply_rules(forms) ==
    IF Len(forms) = 0 THEN << >>
    ELSE RulesOf(forms[1], 1) \o apply_rules(Tail(forms))

RECURSIVE FilterFrom(_, _, _)
FilterFrom(forms, i, seen) ==
    IF i > Len(forms) THEN << >>
    ELSE IF forms[i] \in NounIndex /\ forms[i] \notin seen
         THEN << forms[i] >> \o FilterFrom(forms, i + 1, seen \cup {forms[i]})
         ELSE FilterFrom(forms, i + 1, seen)

\* The forms that are in the index, first occurrences, order kept.
filter_forms(forms) == FilterFrom(forms, 1, {})

RECURSIVE MorphyLoop(_)
\* Step 3 of morphy: apply the rules again until a form is in the index.
MorphyLoop(forms) ==
    IF Len(forms) = 0 THEN << >>
    ELSE LET next == apply_rules(forms)
             results == filter_forms(next)
         IN  IF Len(results) > 0 THEN results ELSE MorphyLoop(next)

ExceptionsOf(form) ==
    LET hits == { e \in NounExceptions : e[1] = form }
    IN  IF hits = {} THEN << >> ELSE << (CHOOSE e \in hits : TRUE)[2] >>

morphy(form) ==
    IF \E e \in NounExceptions : e[1] = form
    THEN filter_forms(<< form >> \o ExceptionsOf(form))
    ELSE LET forms == apply_rules(<< form >>)
             results == filter_forms(<< form >> \o forms)
         IN  IF Len(results) > 0 THEN results ELSE MorphyLoop(forms)

\* min(lemmas, key=len): the first lemma of least length.
Shortest(lemmas) ==
    lemmas[CHOOSE i \in 1..Len(lemmas) :
              /\ \A j \in 1..Len(lemmas) : Len(lemmas[i]) <= Len(lemmas[j])
              /\ \A j \in 1..(i - 1) : Len(lemmas[j]) > Len(lemmas[i])]

lemmatize(word) ==
    LET lemmas == morphy(word)
    IN  IF Len(lemmas) > 0 THEN Shortest(lemmas) ELSE word

(***************************************************************************)
(* Python values                                                           *)
(***************************************************************************)
\* A name not bound yet.
Unset == [unset |-> TRUE]

PyNone == [py |-> "None"]
PyInt(n) == [py |-> "int", v |-> n]
PyDict(items) == [py |-> "dict", items |-> items]

\* Python truth of a value that is None or a dict (line 158).
Truthy(v) == v # PyNone /\ ~(v.py = "dict" /\ DOMAIN v.items = {})

\* A missing cell of a table, and a cell holding a string.
NaN == [isna |-> TRUE]
Val(s) == [isna |-> FALSE, val |-> s]

(***************************************************************************)
(* Bounds and inputs                                                       *)
(***************************************************************************)
\* Most rows of Fake.csv, and of True.csv.
MaxRows == 2

\* The rows read_csv may return for Fake.csv and for True.csv; title stands
\* for every column but text.  Between them the two files hold texts that
\* keep all, some or none of their tokens, a row without a title and a row
\* without a text.
FakeRows ==
    { [title |-> Val("t"), text |-> Val("the Cans")],
      [title |-> Val("t"), text |-> Val("4 !")],
      [title |-> NaN, text |-> Val("Dogs bark")] }

TrueRows ==
    { [title |-> Val("t"), text |-> Val("Dogs bark")],
      [title |-> Val("t"), text |-> Val("4 !")],
      [title |-> Val("t"), text |-> NaN] }

TablesOf(rows) == UNION { [1..n -> rows] : n \in 0..MaxRows }

\* What datetime.now().isoformat() and os.getenv("USER") may give.
Clock == { "2025-03-01T10:00:00.5" }
Environ == { PyNone, Val("alice") }

(***************************************************************************)
(* load_data                                                               *)
(***************************************************************************)
\* ds['label'] = value (lines 43-44).
AddLabel(table, value) ==
    [i \in 1..Len(table) |->
        [title |-> table[i].title, text |-> table[i].text, label |-> value]]

\* Lines 43-47.
MergeDatasets(fake_ds, true_ds) ==
    [rows |-> AddLabel(fake_ds, 0) \o AddLabel(true_ds, 1)]

(***************************************************************************)
(* preprocess_data                                                         *)
(***************************************************************************)
\* dropna(subset=["text", "label"]).
HasNa_TextOnly(row) == row.text = NaN

\* The label column is assigned to every row by load_data and is never
\* missing; the cells read from the file may be.
HasNa(row) == row.title = NaN \/ row.text = NaN

RECURSIVE Dropna(_)
\* dataset.dropna() (line 58): the rows without a missing cell, in order.
Dropna(rows) ==
    IF Len(rows) = 0 THEN << >>
    ELSE IF HasNa(rows[1]) THEN Dropna(Tail(rows))
    ELSE << rows[1] >> \o Dropna(Tail(rows))

RECURSIVE RemoveStopwords(_)
\* Line 66.
RemoveStopwords(tokens) ==
    IF Len(tokens) = 0 THEN << >>
    ELSE IF StrLower(tokens[1]) \notin stop_words
         THEN << StrLower(tokens[1]) >> \o RemoveStopwords(Tail(tokens))
         ELSE RemoveStopwords(Tail(tokens))

RECURSIVE RemoveNonAlpha(_)
\* Line 71.
RemoveNonAlpha(tokens) ==
    IF Len(tokens) = 0 THEN << >>
    ELSE IF IsAlpha(tokens[1])
         THEN << tokens[1] >> \o RemoveNonAlpha(Tail(tokens))
         ELSE RemoveNonAlpha(Tail(tokens))

\* Line 77.
LemmatizeTokens(tokens) == [i \in 1..Len(tokens) |-> lemmatize(tokens[i])]

\* The tokens handed to the lemmatizer (lines 61-72).
FilteredTokens(text) == RemoveNonAlpha(RemoveStopwords(word_tokenize(text)))

\* Lines 61-78: the text_tokens of one text.
TextTokens(text) == LemmatizeTokens(FilteredTokens(text))

\* Lines 61-81: the text_clean of one text.
TextClean(text) == JoinWith(" ", TextTokens(text))

NormalizeRow(row) ==
    [title |-> row.title, text |-> row.text, label |-> row.label,
     text_tokens |-> TextTokens(row.text.val),
     text_clean |-> TextClean(row.text.val)]

\* Lines 58-83.
Normalize(rows) ==
    LET kept == Dropna(rows)
    IN  [i \in 1..Len(kept) |-> NormalizeRow(kept[i])]

\* Some token of the table reaches lemmatizer.lemmatize (line 77).
ReachesLemmatizer(rows) ==
    LET kept == Dropna(rows)
    IN  \E i \in 1..Len(kept) : Len(FilteredTokens(kept[i].text.val)) > 0

(***************************************************************************)
(* train_random_forest_model                                               *)
(***************************************************************************)
max_features == 5000
n_estimators == 100
random_state == 42

IsWordChar(c) == IsIn(c, Upper) \/ IsIn(c, Lower) \/ IsIn(c, Digits) \/ c = "_"

RECURSIVE TermScan(_, _, _)
\* TfidfVectorizer's default analyzer: the lowercased document's matches of
\* the token pattern \b\w\w+\b, runs of two or more word characters.
TermScan(doc, i, cur) ==
    LET done == IF Len(cur) >= 2 THEN { cur } ELSE {}
    IN  IF i > Len(doc) THEN done
        ELSE IF IsWordChar(Char(doc, i)) THEN TermScan(doc, i + 1, cur \o Char(doc, i))
        ELSE done \cup TermScan(doc, i + 1, "")

Terms(doc) == TermScan(StrLower(doc), 1, "")

\* How many documents hold the term once or more.  (The vectorizer ranks by
\* the count of occurrences; the two agree on the texts of the model.)
TermCount(term, docs) == Cardinality({ i \in 1..Len(docs) : term \in Terms(docs[i]) })

\* tfidf.fit (line 91): the terms of the documents, the max_features most
\* frequent ones when there are more.
Vocabulary(docs) ==
    LET all == UNION { Terms(docs[i]) : i \in 1..Len(docs) }
    IN  IF Cardinality(all) <= max_features THEN all
        ELSE CHOOSE top \in SUBSET all :
                 /\ Cardinality(top) = max_features
                 /\ \A t \in top, u \in all \ top :
                        TermCount(t, docs) >= TermCount(u, docs)

CleanDocs(rows) == [i \in 1..Len(rows) |-> rows[i].text_clean]

\* train_test_split(test_size=0.2) (lines 95-97): n_test = ceil(0.2 * n),
\* n_train = n - n_test.
TestSize(n) == (n + 4) \div 5
TrainSize(n) == n - TestSize(n)

\* The Trainer raises: fit_transform on an empty vocabulary (line 91), or
\* train_test_split on an empty train set (line 95).  Fitting the forest,
\* predicting and reporting raise on no table that passes these two.
TrainRaises(rows) ==
    \/ Vocabulary(CleanDocs(rows)) = {}
    \/ TrainSize(Len(rows)) = 0

\* The test partitions the shuffle may give: random_state fixes one of them
\* for each table size, which one is not visible from the script.
TestSets(n) == { t \in SUBSET (1..n) : Cardinality(t) = TestSize(n) }

LabelsAt(rows, idx) == { rows[i].label : i \in idx }

\* rf_model and tfidf as fitted (lines 90-101) and composed (lines 109-112).
FittedPipeline(vocabulary, classes) ==
    [class |-> "Pipeline",
     steps |-> << [name |-> "tfidf", type |-> "TfidfVectorizer",
                   vocabulary |-> vocabulary],
                  [name |-> "clf", type |-> "RandomForestClassifier",
                   n_estimators |-> PyInt(n_estimators), max_depth |-> PyNone,
                   random_state |-> PyInt(random_state),
                   classes |-> classes] >>]

\* classification_report(y_test, y_pred, output_dict=True) (line 118): an
\* entry per label of y_test or y_pred, and the three aggregates; each entry
\* is given by its support, the accuracy by the number of right predictions.
Report(rows, test, y_pred) ==
    LET labels == LabelsAt(rows, test) \cup { y_pred[i] : i \in test }
        keys == { ToString(l) : l \in labels }
                  \cup { "accuracy", "macro avg", "weighted avg" }
        support(l) == Cardinality({ i \in test : rows[i].label = l })
        right == Cardinality({ i \in test : rows[i].label = y_pred[i] })
    IN  PyDict([k \in keys |->
                  IF k = "accuracy" THEN right
                  ELSE IF k \in { "macro avg", "weighted avg" } THEN Cardinality(test)
                  ELSE support(CHOOSE l \in labels : ToString(l) = k)])

(***************************************************************************)
(* save_model                                                              *)
(***************************************************************************)
IsPipeline(model) == model.class = "Pipeline"

\* The classifier looked up under the name "rf".
HasForest_WrongName(model) ==
    \E i \in 1..Len(model.steps) :
        model.steps[i].name = "rf" /\ model.steps[i].type = "RandomForestClassifier"

\* model.named_steps holds "clf" and it is a RandomForestClassifier (line 149).
HasForest(model) ==
    \E i \in 1..Len(model.steps) :
        model.steps[i].name = "clf" /\ model.steps[i].type = "RandomForestClassifier"

ForestOf(model) ==
    model.steps[CHOOSE i \in 1..Len(model.steps) : model.steps[i].name = "clf"]

\* Lines 132-139.
BaseMetadata(name, now, user) ==
    [model_name |-> name,
     model_type |-> "RandomForest",
     description |-> "Random Forest model for fake news detection",
     features_used |-> "text content (TF-IDF)",
     saved_on |-> now,
     saved_by |-> IF user = PyNone THEN "unknown" ELSE user.val]

\* Lines 143-146.
PipelineSteps(model) ==
    [i \in 1..Len(model.steps) |->
        [name |-> model.steps[i].name, type |-> model.steps[i].type]]

\* Lines 151-155.
ForestDetails(rf) ==
    [n_estimators |-> rf.n_estimators.v,
     max_depth |-> IF rf.max_depth # PyNone THEN rf.max_depth.v ELSE "None",
     random_state |-> IF rf.random_state # PyNone THEN rf.random_state.v ELSE "None"]

\* "if metrics is not None" in place of "if metrics".
WithPerformance_NotNone(metrics) ==
    IF metrics # PyNone THEN [performance |-> metrics] ELSE << >>

\* Lines 158-159.
WithPerformance(metrics) ==
    IF Truthy(metrics) THEN [performance |-> metrics] ELSE << >>

\* Lines 132-159: the metadata dict.
BuildMetadata(model, name, metrics, now, user) ==
    LET steps == IF IsPipeline(model)
                 THEN [pipeline_steps |-> PipelineSteps(model)] ELSE << >>
        forest == IF IsPipeline(model) /\ HasForest(model)
                  THEN ForestDetails(ForestOf(model)) ELSE << >>
    IN  WithPerformance(metrics) @@ forest @@ steps @@ BaseMetadata(name, now, user)

(***************************************************************************)
(* The run of main()                                                       *)
(***************************************************************************)
VARIABLES
    pc,              \* where the run stands
    process,         \* running, or exited with a status and the raising function
    stdout,          \* the lines printed so far
    dataset,         \* main's dataset (line 175)
    processed_data,  \* main's processed_data (line 179)
    model,           \* the pipeline returned by the Trainer (line 183)
    metrics,         \* the report returned by the Trainer (line 183)
    test_pred,       \* the smoke test's prediction (line 115)
    model_name,      \* save_model's model_name
    metadata,        \* save_model's metadata
    model_file,      \* ../api/models/<model_name>.pkl
    metadata_file    \* ../api/models/<model_name>_metadata.json

vars == << pc, process, stdout, dataset, processed_data, model, metrics,
           test_pred, model_name, metadata, model_file, metadata_file >>

Running == [state |-> "running"]
Exited(status, raised_in) ==
    [state |-> "exited", status |-> status, raised_in |-> raised_in]

Absent == [state |-> "absent"]
Partial == [state |-> "partial"]
Complete(content) == [state |-> "complete", content |-> content]

\* The first line each stage prints (lines 32, 55, 87, 122).
StageLines ==
    << "Loading datasets...", "Preprocessing data...",
       "Training Random Forest model...", "Saving model..." >>

Init ==
    /\ pc = "load"
    /\ process = Running
    /\ stdout = << >>
    /\ dataset = Unset
    /\ processed_data = Unset
    /\ model = Unset
    /\ metrics = Unset
    /\ test_pred = << >>
    /\ model_name = ""
    /\ metadata = Unset
    /\ model_file = Absent
    /\ metadata_file = Absent

\* load_data returns the merged table (lines 32-48), main goes on (line 176).
LoadData ==
    /\ pc = "load"
    /\ \E fake_ds \in TablesOf(FakeRows), true_ds \in TablesOf(TrueRows) :
           dataset' = MergeDatasets(fake_ds, true_ds)
    /\ stdout' = stdout \o << StageLines[1], "Path to dataset files", "Loaded dataset" >>
    /\ pc' = "preprocess"
    /\ UNCHANGED << process, processed_data, model, metrics, test_pred,
                    model_name, metadata, model_file, metadata_file >>

\* The except branch with sys.exit() in place of sys.exit(1).
LoadDataFail_ExitZero ==
    /\ pc = "load"
    /\ stdout' = stdout \o << StageLines[1], "Error loading data" >>
    /\ process' = Exited(0, "load_data")
    /\ pc' = "exited"
    /\ UNCHANGED << dataset, processed_data, model, metrics, test_pred,
                    model_name, metadata, model_file, metadata_file >>

\* The download or a read_csv raises: the except branch prints the error
\* and sys.exit(1) ends the process (lines 49-51).
LoadDataFail ==
    /\ pc = "load"
    /\ stdout' = stdout \o << StageLines[1], "Error loading data" >>
    /\ process' = Exited(1, "load_data")
    /\ pc' = "exited"
    /\ UNCHANGED << dataset, processed_data, model, metrics, test_pred,
                    model_name, metadata, model_file, metadata_file >>

\* preprocess_data returns (lines 55-83), main goes on (line 180).
PreprocessData ==
    /\ pc = "preprocess"
    /\ processed_data' = [rows |-> Normalize(dataset.rows)]
    /\ stdout' = stdout \o << StageLines[2], "Preprocessed data" >>
    /\ pc' = "train"
    /\ UNCHANGED << process, dataset, model, metrics, test_pred,
                    model_name, metadata, model_file, metadata_file >>

\* lemmatizer.lemmatize raises on a token (line 77; the wordnet download of
\* line 28 is quiet and unchecked).  Nothing catches it: the error leaves
\* preprocess_data and main, and the interpreter exits with status 1.
PreprocessFail ==
    /\ pc = "preprocess"
    /\ ReachesLemmatizer(dataset.rows)
    /\ stdout' = stdout \o << StageLines[2] >>
    /\ process' = Exited(1, "preprocess_data")
    /\ pc' = "exited"
    /\ UNCHANGED << dataset, processed_data, model, metrics, test_pred,
                    model_name, metadata, model_file, metadata_file >>

\* train_random_forest_model returns (lines 87-118) and main calls
\* save_model(model, "random_forest", metrics) (line 186).
TrainModel ==
    /\ pc = "train"
    /\ ~TrainRaises(processed_data.rows)
    /\ LET rows == processed_data.rows
           n == Len(rows)
           vocabulary == Vocabulary(CleanDocs(rows))
       IN  \E test \in TestSets(n) :
             LET classes == LabelsAt(rows, (1..n) \ test)
             IN  \E y_pred \in [test -> classes], pred \in classes :
                   /\ model' = FittedPipeline(vocabulary, classes)
                   /\ metrics' = Report(rows, test, y_pred)
                   /\ test_pred' = << pred >>
    /\ stdout' = stdout \o << StageLines[3], "Random Forest Classification Report:",
                              "Pipeline test prediction" >>
    /\ model_name' = "random_forest"
    /\ pc' = "save"
    /\ UNCHANGED << process, dataset, processed_data, metadata,
                    model_file, metadata_file >>

\* The Trainer's error caught in main, which goes on to save a pipeline
\* that was never fitted.
TrainFail_SaveAnyway ==
    /\ pc = "train"
    /\ TrainRaises(processed_data.rows)
    /\ stdout' = stdout \o << StageLines[3] >>
    /\ model' = FittedPipeline({}, {})
    /\ metrics' = PyNone
    /\ model_name' = "random_forest"
    /\ pc' = "save"
    /\ UNCHANGED << process, dataset, processed_data, test_pred, metadata,
                    model_file, metadata_file >>

\* fit_transform or train_test_split raises (lines 91, 95): uncaught.
TrainFail ==
    /\ pc = "train"
    /\ TrainRaises(processed_data.rows)
    /\ stdout' = stdout \o << StageLines[3] >>
    /\ process' = Exited(1, "train_random_forest_model")
    /\ pc' = "exited"
    /\ UNCHANGED << dataset, processed_data, model, metrics, test_pred,
                    model_name, metadata, model_file, metadata_file >>

\* save_model up to the metadata dict (lines 122-159).
SaveBegin ==
    /\ pc = "save"
    /\ \E now \in Clock, user \in Environ :
           metadata' = BuildMetadata(model, model_name, metrics, now, user)
    /\ stdout' = stdout \o << StageLines[4] >>
    /\ pc' = "open_model"
    /\ UNCHANGED << process, dataset, processed_data, model, metrics,
                    test_pred, model_name, model_file, metadata_file >>

\* open(model_path, "wb") (line 162) creates the file, empty.
OpenModelFile ==
    /\ pc = "open_model"
    /\ model_file' = Partial
    /\ pc' = "dump_model"
    /\ UNCHANGED << process, stdout, dataset, processed_data, model, metrics,
                    test_pred, model_name, metadata, metadata_file >>

\* pickle.dump and the close of the with block (line 163).
DumpModel ==
    /\ pc = "dump_model"
    /\ model_file' = Complete(model)
    /\ pc' = "open_metadata"
    /\ UNCHANGED << process, stdout, dataset, processed_data, model, metrics,
                    test_pred, model_name, metadata, metadata_file >>

\* open(metadata_path, "w") (line 166).
OpenMetadataFile ==
    /\ pc = "open_metadata"
    /\ metadata_file' = Partial
    /\ pc' = "dump_metadata"
    /\ UNCHANGED << process, stdout, dataset, processed_data, model, metrics,
                    test_pred, model_name, metadata, model_file >>

\* json.dump and the close of the with block (line 167).
DumpMetadata ==
    /\ pc = "dump_metadata"
    /\ metadata_file' = Complete(metadata)
    /\ pc' = "report_saved"
    /\ UNCHANGED << process, stdout, dataset, processed_data, model, metrics,
                    test_pred, model_name, metadata, model_file >>

\* Lines 169-170: save_model returns.
SaveReturn ==
    /\ pc = "report_saved"
    /\ stdout' = stdout \o << "Model saved", "Metadata saved" >>
    /\ pc' = "saved"
    /\ UNCHANGED << process, dataset, processed_data, model, metrics,
                    test_pred, model_name, metadata, model_file, metadata_file >>

NextStep(at) ==
    CASE at = "save" -> "open_model"
      [] at = "open_model" -> "dump_model"
      [] at = "dump_model" -> "open_metadata"
      [] at = "open_metadata" -> "dump_metadata"
      [] at = "dump_metadata" -> "report_saved"

\* The error of a step caught and passed over, save_model going on.
WriteFail_Swallowed ==
    /\ pc \in { "save", "open_model", "dump_model", "open_metadata", "dump_metadata" }
    /\ pc' = NextStep(pc)
    /\ UNCHANGED << process, stdout, dataset, processed_data, model, metrics,
                    test_pred, model_name, metadata, model_file, metadata_file >>

\* os.makedirs, an open or a write raises (lines 125, 162-163, 166-167).
\* Nothing catches it and nothing removes what was written: a failed open
\* leaves no file, a failed write leaves the file as far as it got.
WriteFail ==
    /\ pc \in { "save", "open_model", "dump_model", "open_metadata", "dump_metadata" }
    /\ stdout' = IF pc = "save" THEN stdout \o << StageLines[4] >> ELSE stdout
    /\ process' = Exited(1, "save_model")
    /\ pc' = "exited"
    /\ UNCHANGED << dataset, processed_data, model, metrics, test_pred,
                    model_name, metadata, model_file, metadata_file >>

\* Line 188, and the interpreter's exit after main returns.
MainComplete ==
    /\ pc = "saved"
    /\ stdout' = stdout \o << "Random Forest model processing complete!" >>
    /\ process' = Exited(0, "none")
    /\ pc' = "done"
    /\ UNCHANGED << dataset, processed_data, model, metrics, test_pred,
                    model_name, metadata, model_file, metadata_file >>

SaveModel ==
    \/ SaveBegin
    \/ OpenModelFile
    \/ DumpModel
    \/ OpenMetadataFile
    \/ DumpMetadata
    \/ SaveReturn
    \/ WriteFail

Next ==
    \/ LoadData
    \/ LoadDataFail
    \/ PreprocessData
    \/ PreprocessFail
    \/ TrainModel
    \/ TrainFail
    \/ SaveModel
    \/ MainComplete

Spec == Init /\ [][Next]_vars

(***************************************************************************)
(* save_model called on its own, with any model, name and metrics.         *)
(***************************************************************************)
SaveModels ==
    { FittedPipeline({ "can", "dog" }, { 0, 1 }),
      [class |-> "Pipeline",
       steps |-> << [name |-> "tfidf", type |-> "TfidfVectorizer"],
                    [name |-> "clf", type |-> "LogisticRegression"] >>],
      [class |-> "Pipeline",
       steps |-> << [name |-> "clf", type |-> "RandomForestClassifier",
                     n_estimators |-> PyInt(10), max_depth |-> PyInt(5),
                     random_state |-> PyNone] >>],
      [class |-> "RandomForestClassifier"] }

SaveMetrics ==
    { PyNone, PyDict(<< >>), PyDict([accuracy |-> 1]),
      PyDict([k \in { "0", "1", "accuracy" } |-> 1]) }

SaveNames == { "random_forest", "rf_v2" }

InitSave ==
    /\ pc = "save"
    /\ process = Running
    /\ stdout = << >>
    /\ dataset = Unset
    /\ processed_data = Unset
    /\ model \in SaveModels
    /\ metrics \in SaveMetrics
    /\ test_pred = << >>
    /\ model_name \in SaveNames
    /\ metadata = Unset
    /\ model_file = Absent
    /\ metadata_file = Absent

NextSave == SaveModel

SpecSave == InitSave /\ [][NextSave]_vars

(***************************************************************************)
(* Properties                                                              *)
(***************************************************************************)
Range(f) == { f[x] : x \in DOMAIN f }

IsStageLine(line) == line \in Range(StageLines)

\* The stages started so far, by their first printed line.
StageLog == SelectSeq(stdout, IsStageLine)

StageFunctions ==
    << "load_data", "preprocess_data", "train_random_forest_model", "save_model" >>

Failed == process.state = "exited" /\ process.status # 0

CountLabel(rows, l) == Cardinality({ i \in 1..Len(rows) : rows[i].label = l })

\* C1: the stages start at most once each and in the order load_data,
\* preprocess_data, train_random_forest_model, save_model; a stage has
\* started only when the one before it has returned its result; and when the
\* process has failed, the stage that failed is the last one started.
C1_LinearStages ==
    /\ StageLog = SubSeq(StageLines, 1, Len(StageLog))
    /\ (Len(StageLog) >= 2 => dataset # Unset)
    /\ (Len(StageLog) >= 3 => processed_data # Unset)
    /\ (Len(StageLog) >= 4 => model # Unset /\ metrics # Unset /\ test_pred # << >>)
    /\ (Failed => Len(StageLog) >= 1 /\ process.raised_in = StageFunctions[Len(StageLog)])

\* A run that went through the four stages.
C1_Witness ==
    /\ pc = "done"
    /\ StageLog = StageLines

\* C2: when load_data fails the process has exited with status 1, no later
\* stage has run and neither artifact file exists; a process that exited
\* after all four stages completed exited with status 0.
C2_LoadFailureExits ==
    /\ ("Error loading data" \in Range(stdout) =>
            /\ process = Exited(1, "load_data")
            /\ StageLog = << StageLines[1] >>
            /\ dataset = Unset /\ processed_data = Unset /\ model = Unset
            /\ model_file = Absent /\ metadata_file = Absent)
    /\ (process.state = "exited" /\ "Metadata saved" \in Range(stdout) =>
            process.status = 0)

C2_Witness ==
    /\ "Error loading data" \in Range(stdout)
    /\ process.state = "exited"

\* C3: once the Trainer has acted on a table with two or more records of
\* each label, it has returned a pipeline and the smoke test's prediction is
\* 0 or 1, whatever the texts of the records.
C3_TrainerAlwaysPredicts ==
    (/\ processed_data # Unset
     /\ pc # "train"
     /\ CountLabel(processed_data.rows, 0) >= 2
     /\ CountLabel(processed_data.rows, 1) >= 2)
    => /\ process # Exited(1, "train_random_forest_model")
       /\ model # Unset
       /\ Len(test_pred) = 1 /\ test_pred[1] \in { 0, 1 }

\* C4: once the Trainer has acted on a table whose records all bear one
\* label, it has failed: no pipeline was returned, the Persister has not run
\* and no artifact exists.
C4_SingleClassFails ==
    (/\ processed_data # Unset
     /\ pc # "train"
     /\ Len(processed_data.rows) > 0
     /\ Cardinality(LabelsAt(processed_data.rows, 1..Len(processed_data.rows))) = 1)
    => /\ process = Exited(1, "train_random_forest_model")
       /\ model = Unset
       /\ Len(StageLog) = 3
       /\ model_file = Absent /\ metadata_file = Absent

\* C5: normalizing the cleaned text of a record gives that cleaned text.
C5_NormalizeIdempotent ==
    processed_data # Unset =>
        \A i \in 1..Len(processed_data.rows) :
            TextClean(processed_data.rows[i].text_clean)
                = processed_data.rows[i].text_clean

\* C6: the metadata save_model builds for the Trainer's pipeline has the
\* keys model_name, model_type and saved_on, the two pipeline steps tfidf
\* and clf in this order, n_estimators 100 and random_state 42; the sidecar,
\* once written, holds this metadata.
C6_MetadataFields ==
    /\ (metadata # Unset =>
            /\ { "model_name", "model_type", "saved_on" } \subseteq DOMAIN metadata
            /\ "pipeline_steps" \in DOMAIN metadata
            /\ Len(metadata.pipeline_steps) = 2
            /\ metadata.pipeline_steps[1].name = "tfidf"
            /\ metadata.pipeline_steps[2].name = "clf"
            /\ "n_estimators" \in DOMAIN metadata /\ metadata.n_estimators = 100
            /\ "random_state" \in DOMAIN metadata /\ metadata.random_state = 42)
    /\ (metadata_file.state = "complete" =>
            metadata # Unset /\ metadata_file.content = metadata)

C6_Witness ==
    /\ pc = "done"
    /\ metadata_file.state = "complete"
    /\ metadata_file.content.model_name = "random_forest"

\* C7 as claimed: performance is left out exactly when the metrics are None,
\* and is the supplied metrics whenever metrics are supplied.
C7_PerformanceIffSupplied ==
    metadata # Unset =>
        /\ (metrics = PyNone => "performance" \notin DOMAIN metadata)
        /\ (metrics # PyNone =>
                "performance" \in DOMAIN metadata /\ metadata.performance = metrics)

\* C7, amended: performance is left out when the metrics are None or an empty
\* dict, and is the supplied metrics when they are a non-empty dict; the
\* other entries are those save_model builds from the same model, name, time
\* and user when no metrics are given.
C7_PerformanceIffTruthy ==
    metadata # Unset =>
        /\ (~Truthy(metrics) => "performance" \notin DOMAIN metadata)
        /\ (Truthy(metrics) =>
                "performance" \in DOMAIN metadata /\ metadata.performance = metrics)
        /\ \E user \in Environ :
               LET bare == BuildMetadata(model, model_name, PyNone,
                                         metadata.saved_on, user)
               IN  /\ "performance" \notin DOMAIN bare
                   /\ DOMAIN bare = DOMAIN metadata \ { "performance" }
                   /\ \A k \in DOMAIN bare : metadata[k] = bare[k]

\* The sidecar written for an empty metrics dict, and without performance.
C7_Witness ==
    /\ metadata_file.state = "complete"
    /\ metrics = PyDict(<< >>)
    /\ "performance" \notin DOMAIN metadata_file.content

\* The rows of the input kept by the test keep(row), in the input's order,
\* are the rows of the output, which are no more than the input's.
KeepsExactly(keep(_)) ==
    LET in == dataset.rows
        out == processed_data.rows
        kept == { i \in 1..Len(in) : keep(in[i]) }
        nth(k) == CHOOSE i \in kept : Cardinality({ j \in kept : j <= i }) = k
    IN  /\ Len(out) = Cardinality(kept)
        /\ Len(out) <= Len(in)
        /\ \A k \in 1..Len(out) :
               /\ out[k].title = in[nth(k)].title
               /\ out[k].text = in[nth(k)].text
               /\ out[k].label = in[nth(k)].label

TextPresent(row) == row.text # NaN
AllPresent(row) == row.text # NaN /\ row.title # NaN

\* C8 as claimed: preprocess_data keeps exactly the rows whose text (and
\* label) is present, in order.
C8_DropsMissingTextOrLabel ==
    processed_data # Unset => KeepsExactly(TextPresent)

\* C8, amended: preprocess_data keeps exactly the rows none of whose columns
\* is missing, in the input's order, and so never more rows than it was given.
C8_DropsAnyMissing ==
    processed_data # Unset => KeepsExactly(AllPresent)

\* A row with its text and without its title was dropped, and so was a row
\* without its text.
C8_Witness ==
    /\ processed_data # Unset
    /\ \E i \in 1..Len(dataset.rows) :
           dataset.rows[i].title = NaN /\ dataset.rows[i].text # NaN
    /\ \E i \in 1..Len(dataset.rows) : dataset.rows[i].text = NaN
    /\ Len(processed_data.rows) = Len(dataset.rows) - 2

\* C9: once the Normalizer has run, also when the lemmatizer raised on a
\* token, it has returned a normalized record for every kept row.
C9_TokenFailureTolerated ==
    Len(StageLog) >= 2 =>
        /\ processed_data # Unset
        /\ Len(processed_data.rows) = Len(Dropna(dataset.rows))
        /\ process # Exited(1, "preprocess_data")

\* C10: the sidecar exists, whole or in part, only when the binary has been
\* written completely.
C10_SidecarOnlyAfterBinary ==
    metadata_file.state # "absent" => model_file.state = "complete"

\* The reverse fails: a run aborted after the binary was written leaves the
\* binary without a sidecar.
C10_Witness ==
    /\ process = Exited(1, "save_model")
    /\ model_file.state = "complete"
    /\ metadata_file.state = "absent"

=============================================================================
